---- MODULE Spec2Model ----
(***************************************************************************)
(* The video concatenation service (video-concat-service/app.py):          *)
(* POST /concat handled by concat_videos.  Each handled request is one     *)
(* job; jobs of different worker processes interleave at the granularity   *)
(* of the handler's file-system and subprocess calls and share /tmp.       *)
(***************************************************************************)
EXTENDS Integers, Sequences, FiniteSets, TLC

\* ------------------------------------------------------------------ bounds
MaxJobs == 2
MaxScenes == 2
NumUUIDs == 2

Jobs == 1..MaxJobs
\* the values uuid.uuid4() can return
UUIDs == 1..NumUUIDs
URLs == {"A", "B"}

NoJobId == 0

\* --------------------------------------------------------- request bodies
\* A JSON body is the set of keys it carries with values pydantic accepts
\* for the field's type ("present") and the scenes it lists; a scene likewise.
SceneFields == {"url", "duration"}
BodyFields == {"scenes", "output_path", "campaign_id"}

\* class Scene(BaseModel): url: str, duration: float -- both required
SceneValidates(s) == SceneFields \subseteq s.present

\* class ConcatRequest(BaseModel): scenes: List[Scene], output_path: str,
\* campaign_id: str -- all required; List[Scene] accepts the empty list
ConcatRequestValidates_Lax(b) == "scenes" \in b.present

ConcatRequestValidates(b) ==
    /\ BodyFields \subseteq b.present
    /\ \A k \in 1..Len(b.scenes) : SceneValidates(b.scenes[k])

GoodScene(u) == [present |-> SceneFields, url |-> u]

SceneLists ==
    UNION {[1..n -> {GoodScene(u) : u \in URLs}] : n \in 0..MaxScenes}

WellFormedBodies == {[present |-> BodyFields, scenes |-> s] : s \in SceneLists}

MalformedBodies ==
    { [present |-> {"output_path", "campaign_id"}, scenes |-> <<>>],
      [present |-> {"scenes", "campaign_id"}, scenes |-> <<GoodScene("A")>>],
      [present |-> {"scenes", "output_path"}, scenes |-> <<GoodScene("A")>>],
      [present |-> BodyFields, scenes |-> <<[present |-> {"duration"}, url |-> "A"]>>],
      [present |-> BodyFields, scenes |-> <<GoodScene("A"), [present |-> {"url"}, url |-> "B"]>>] }

RequestBodies == WellFormedBodies \cup MalformedBodies

NoBody == [present |-> {}, scenes |-> <<>>]

\* ------------------------------------------------------------------ paths
\* temp_dir = f"/tmp/concat_{job_id}"
TempDir(id) == <<"/tmp", "concat", id>>
\* scene_path = f"{temp_dir}/scene_{i}.mp4"   (i is 0-based)
ScenePath(dir, i) == [dir |-> dir, file |-> <<"scene", i>>]
\* concat_file = f"{temp_dir}/concat.txt"
ConcatFile(dir) == [dir |-> dir, file |-> <<"concat.txt">>]
\* output_file = f"{temp_dir}/output.mp4"
OutputFile(dir) == [dir |-> dir, file |-> <<"output.mp4">>]

VARIABLES
    pc,          \* pc[j]: where job j's handler stands
    request,     \* request[j]: the body job j was submitted with
    job_id,      \* job_id[j]: the handler's local job_id
    scene_files, \* scene_files[j]: the handler's local list scene_files
    dirs,        \* the directories that exist under /tmp
    fs,          \* the files that exist: path -> [writer, data]
    curl_log,    \* curl_log[j]: the curl invocations of job j and their outcomes
    ffmpeg_log,  \* ffmpeg_log[j]: the ffmpeg invocations of job j and their outcomes
    responses    \* responses[j]: the HTTP responses sent for job j

\* the state of the two workflow patching scripts (brand-infinity-workflows)
VARIABLES
    workflow_file, \* add_mock_mode.py: main-workflows/Production_Dispatcher.json
    mock_runs,     \* how many times patch_production_dispatcher has run
    content,       \* hardcode_workflow_ids.py: the text of the workflow file
    replacements,  \* the map create_replacement_map built
    returned       \* the values the calls of patch_workflow_file returned, with
                   \* whether the call wrote the file

service_vars == <<pc, request, job_id, scene_files, dirs, fs, curl_log, ffmpeg_log, responses>>
mock_vars == <<workflow_file, mock_runs>>
ids_vars == <<content, replacements, returned>>

vars == <<service_vars, mock_vars, ids_vars>>

\* the handler's local temp_dir
temp_dir(j) == TempDir(job_id[j])

\* request.scenes of job j
scenes(j) == request[j].scenes

\* ------------------------------------------------------------ file system
Exists(f, p) == p \in DOMAIN f

\* open(p, 'w') / curl -o p / ffmpeg ... p : create or truncate p and write
WriteFile(f, p, j, d) ==
    [q \in (DOMAIN f) \cup {p} |-> IF q = p THEN [writer |-> j, data |-> d] ELSE f[q]]

\* os.makedirs(temp_dir, exist_ok=True): creates it, no error when it exists
Makedirs(ds, d) == ds \cup {d}

\* no script has been started
MockIdle ==
    /\ workflow_file = [layout |-> "indent2", nodes |-> <<>>]
    /\ mock_runs = 0

IdsIdle ==
    /\ content = <<>>
    /\ replacements = <<>>
    /\ returned = <<>>

\* the service is started, no request has arrived
ServiceInit ==
    /\ pc = [j \in Jobs |-> "idle"]
    /\ request = [j \in Jobs |-> NoBody]
    /\ job_id = [j \in Jobs |-> NoJobId]
    /\ scene_files = [j \in Jobs |-> <<>>]
    /\ dirs = {}
    /\ fs = <<>>
    /\ curl_log = [j \in Jobs |-> <<>>]
    /\ ffmpeg_log = [j \in Jobs |-> <<>>]
    /\ responses = [j \in Jobs |-> <<>>]

Init == ServiceInit /\ MockIdle /\ IdsIdle

\* ------------------------------------------------------------- responses
\* FastAPI's answer to a body that does not validate as ConcatRequest
ValidationResponse == [status |-> 422, success |-> FALSE, detail |-> <<"validation">>]

ErrorResponse_Swallowed(e) == [status |-> 200, success |-> TRUE, detail |-> e]

\* raise HTTPException(status_code=500, detail=str(e))
ErrorResponse(e) == [status |-> 500, success |-> FALSE, detail |-> e]

\* return {"success": True, "output_url": ..., "job_id": ..., "scene_count": ...}
SuccessResponse(j) ==
    [status |-> 200, success |-> TRUE,
     output_url |-> OutputFile(temp_dir(j)),
     job_id |-> job_id[j],
     scene_count |-> Len(scene_files[j])]

\* str(CalledProcessError): "Command '[...]' returned non-zero exit status n."
CalledProcessError(cmd) == <<"Command", cmd, "returned non-zero exit status">>

\* ----------------------------------------------------- external processes
\* what can happen to one "curl -o scene_path url": the body is retrieved;
\* the server answers with an error status (404, 500, ...); the transfer
\* itself fails (unresolvable host, refused or broken connection); the server
\* accepts the connection and never sends the body
CurlOutcomes == {"ok", "http_error", "net_error", "hang"}

\* subprocess.run is called without timeout= and curl without --max-time /
\* --connect-timeout: the call returns only when the process exits by itself
CurlReturns(outcome) == outcome # "hang"

\* curl without -f/--fail exits 0 on an HTTP error status and saves the
\* server's error page to the -o file; it exits non-zero on a transfer error
CurlReturncode(outcome) == IF outcome = "net_error" THEN 1 ELSE 0

ErrorPage == "error_page"

CurlWrites(f, p, j, url, outcome) ==
    CASE outcome = "ok" -> WriteFile(f, p, j, url)
      [] outcome = "http_error" -> WriteFile(f, p, j, ErrorPage)
      [] OTHER -> f

ManifestLines_Reversed(files) == [k \in 1..Len(files) |-> files[Len(files) + 1 - k]]

\* f.write(f"file '{scene_file}'\n") for scene_file in scene_files
ManifestLines(files) == [k \in 1..Len(files) |-> files[k]]

\* a file ffmpeg can open as a media container
Playable(f, p) == Exists(f, p) /\ f[p].data # ErrorPage

\* the concat demuxer fails at once on a manifest without entries or whose
\* first entry cannot be opened; otherwise the exit status is the encoder's;
\* or the process never exits ("hang": it waits, e.g. on its overwrite prompt
\* when output.mp4 already exists)
FfmpegOutcomes(f, manifest) ==
    IF manifest # <<>> /\ Playable(f, manifest[1])
    THEN {"ok", "fail", "hang"}
    ELSE {"fail", "hang"}

\* subprocess.run is called without timeout=
FfmpegReturns(outcome) == outcome # "hang"

FfmpegReturncode_Unchecked(outcome) == 0

\* subprocess.run(..., check=True) raises on a non-zero exit status
FfmpegReturncode(outcome) == IF outcome = "ok" THEN 0 ELSE 1

\* the content of output.mp4: what the listed files held when they were joined
JoinedData(f, manifest) ==
    [k \in 1..Len(manifest) |->
        IF Exists(f, manifest[k]) THEN f[manifest[k]].data ELSE ErrorPage]

\* ---------------------------------------------------------------- actions
\* where the handler stands once n scenes are downloaded: the loop body
\* again, or the code after the loop
AfterIteration(j, n) == IF n < Len(scenes(j)) THEN "download" ELSE "write"

\* a client posts a body to /concat
Submit(j) ==
    /\ pc[j] = "idle"
    /\ \E b \in RequestBodies : request' = [request EXCEPT ![j] = b]
    /\ pc' = [pc EXCEPT ![j] = "validating"]
    /\ UNCHANGED <<job_id, scene_files, dirs, fs, curl_log, ffmpeg_log, responses>>
    /\ UNCHANGED <<mock_vars, ids_vars>>

\* FastAPI parses the body into request: ConcatRequest before the handler runs
Validate(j) ==
    /\ pc[j] = "validating"
    /\ IF ConcatRequestValidates(request[j])
       THEN /\ pc' = [pc EXCEPT ![j] = "acquire"]
            /\ UNCHANGED responses
       ELSE /\ pc' = [pc EXCEPT ![j] = "done"]
            /\ responses' = [responses EXCEPT ![j] = Append(@, ValidationResponse)]
    /\ UNCHANGED <<request, job_id, scene_files, dirs, fs, curl_log, ffmpeg_log>>
    /\ UNCHANGED <<mock_vars, ids_vars>>

\* job_id = str(uuid.uuid4()): a random draw, nothing is consulted
Uuid4(id) == id \in UUIDs

\* lines 25-30: job_id, temp_dir, os.makedirs, scene_files = []
Acquire(j) ==
    /\ pc[j] = "acquire"
    /\ \E id \in UUIDs :
          /\ Uuid4(id)
          /\ job_id' = [job_id EXCEPT ![j] = id]
          /\ dirs' = Makedirs(dirs, TempDir(id))
    /\ scene_files' = [scene_files EXCEPT ![j] = <<>>]
    /\ pc' = [pc EXCEPT ![j] = AfterIteration(j, 0)]
    /\ UNCHANGED <<request, fs, curl_log, ffmpeg_log, responses>>
    /\ UNCHANGED <<mock_vars, ids_vars>>

\* the handler of job j is inside a subprocess.run call that never returns
CurlHung(j) ==
    curl_log[j] # <<>> /\ ~CurlReturns(curl_log[j][Len(curl_log[j])].outcome)

FfmpegHung(j) ==
    ffmpeg_log[j] # <<>> /\ ~FfmpegReturns(ffmpeg_log[j][Len(ffmpeg_log[j])].outcome)

\* lines 31-37, one iteration of the loop: i = len(scene_files) is enumerate's index
Download(j) ==
    /\ pc[j] = "download"
    /\ ~CurlHung(j)
    /\ LET i == Len(scene_files[j])
           scene == scenes(j)[i + 1]
           scene_path == ScenePath(temp_dir(j), i)
       IN \E outcome \in CurlOutcomes :
             /\ curl_log' = [curl_log EXCEPT ![j] =
                                Append(@, [index |-> i, out |-> scene_path,
                                           url |-> scene.url, outcome |-> outcome])]
             /\ fs' = CurlWrites(fs, scene_path, j, scene.url, outcome)
             /\ IF ~CurlReturns(outcome)
                THEN \* the handler stays in subprocess.run
                     UNCHANGED <<pc, scene_files, responses>>
                ELSE IF CurlReturncode(outcome) # 0
                THEN \* check=True raises CalledProcessError, caught at line 65
                     /\ responses' = [responses EXCEPT ![j] = Append(@,
                            ErrorResponse(CalledProcessError(<<"curl", "-o", scene_path, scene.url>>)))]
                     /\ pc' = [pc EXCEPT ![j] = "done"]
                     /\ UNCHANGED scene_files
                ELSE /\ scene_files' = [scene_files EXCEPT ![j] = Append(@, scene_path)]
                     /\ pc' = [pc EXCEPT ![j] = AfterIteration(j, i + 1)]
                     /\ UNCHANGED responses
    /\ UNCHANGED <<request, job_id, dirs, ffmpeg_log>>
    /\ UNCHANGED <<mock_vars, ids_vars>>

\* lines 40-43: write one line per entry of scene_files, in list order
WriteManifest(j) ==
    /\ pc[j] = "write"
    /\ fs' = WriteFile(fs, ConcatFile(temp_dir(j)), j, ManifestLines(scene_files[j]))
    /\ pc' = [pc EXCEPT ![j] = "ffmpeg"]
    /\ UNCHANGED <<request, job_id, scene_files, dirs, curl_log, ffmpeg_log, responses>>
    /\ UNCHANGED <<mock_vars, ids_vars>>

\* lines 46-54: ffmpeg -f concat -safe 0 -i concat_file -c copy output_file, check=True
Ffmpeg(j) ==
    /\ pc[j] = "ffmpeg"
    /\ ~FfmpegHung(j)
    /\ LET concat_file == ConcatFile(temp_dir(j))
           output_file == OutputFile(temp_dir(j))
           manifest == fs[concat_file].data
       IN \E outcome \in FfmpegOutcomes(fs, manifest) :
             /\ ffmpeg_log' = [ffmpeg_log EXCEPT ![j] =
                                  Append(@, [input |-> manifest, outcome |-> outcome])]
             /\ IF ~FfmpegReturns(outcome)
                THEN UNCHANGED <<pc, fs, responses>>
                ELSE IF FfmpegReturncode(outcome) # 0
                THEN /\ responses' = [responses EXCEPT ![j] = Append(@,
                            ErrorResponse(CalledProcessError(<<"ffmpeg", "-i", concat_file, output_file>>)))]
                     /\ pc' = [pc EXCEPT ![j] = "done"]
                     /\ UNCHANGED fs
                ELSE /\ fs' = WriteFile(fs, output_file, j, JoinedData(fs, manifest))
                     /\ pc' = [pc EXCEPT ![j] = "return"]
                     /\ UNCHANGED responses
    /\ UNCHANGED <<request, job_id, scene_files, dirs, curl_log>>
    /\ UNCHANGED <<mock_vars, ids_vars>>

\* lines 58-63: the success response; nothing is uploaded, nothing is removed
Return(j) ==
    /\ pc[j] = "return"
    /\ responses' = [responses EXCEPT ![j] = Append(@, SuccessResponse(j))]
    /\ pc' = [pc EXCEPT ![j] = "done"]
    /\ UNCHANGED <<request, job_id, scene_files, dirs, fs, curl_log, ffmpeg_log>>
    /\ UNCHANGED <<mock_vars, ids_vars>>

Next ==
    \E j \in Jobs :
        \/ Submit(j)
        \/ Validate(j)
        \/ Acquire(j)
        \/ Download(j)
        \/ WriteManifest(j)
        \/ Ffmpeg(j)
        \/ Return(j)

Spec == Init /\ [][Next]_vars

\* ------------------------------------------------------------ vocabulary
\* job j's body passed validation and its handler was entered
Handled(j) == pc[j] \notin {"idle", "validating"} /\ ConcatRequestValidates(request[j])

\* job j has acquired a workspace (lines 25-27 have run)
Acquired(j) == job_id[j] # NoJobId

\* the segment at 0-based index i of job j was retrieved
Retrieved(j, i) ==
    /\ i + 1 <= Len(curl_log[j])
    /\ curl_log[j][i + 1].outcome = "ok"

\* the download of the segment at 0-based index i of job j was attempted and failed
DownloadFailed(j, i) ==
    /\ i + 1 <= Len(curl_log[j])
    /\ curl_log[j][i + 1].outcome # "ok"

\* the join process of job j was run and exited with status 0
JoinSucceeded(j) ==
    \E n \in 1..Len(ffmpeg_log[j]) : ffmpeg_log[j][n].outcome = "ok"

\* the join process of job j was run and exited with a non-zero status
JoinFailed(j) ==
    \E n \in 1..Len(ffmpeg_log[j]) : ffmpeg_log[j][n].outcome = "fail"

\* job j wrote its manifest
ManifestWritten(j) == pc[j] \in {"ffmpeg", "return"} \/ ffmpeg_log[j] # <<>>

Succeeded(j) == \E n \in 1..Len(responses[j]) : responses[j][n].success

\* ------------------------------------------------------------------ C1
\* the manifest of a job whose scenes list has N entries: scene_0 .. scene_{N-1}
C1_Manifest(j) == [k \in 1..Len(scenes(j)) |-> ScenePath(temp_dir(j), k - 1)]

\* C1: whenever a job writes its manifest, concat.txt holds exactly N entries,
\* entry i is scene_i.mp4 of the job's workspace, and scene_i.mp4 is the file the
\* i-th curl call fetched from scenes[i].url; nothing reordered, dropped, duplicated.
C1_OrderPreservation ==
    [][\A j \in Jobs :
         (pc[j] = "write" /\ pc'[j] = "ffmpeg") =>
            /\ fs'[ConcatFile(temp_dir(j))].data = C1_Manifest(j)
            /\ Len(curl_log[j]) = Len(scenes(j))
            /\ \A k \in 1..Len(scenes(j)) :
                  /\ curl_log[j][k].index = k - 1
                  /\ curl_log[j][k].out = C1_Manifest(j)[k]
                  /\ curl_log[j][k].url = scenes(j)[k].url]_vars

C1_Witness ==
    \E j \in Jobs :
        /\ pc[j] = "ffmpeg"
        /\ Len(scenes(j)) = 2
        /\ scenes(j)[1].url # scenes(j)[2].url
        /\ \A k \in 1..2 : Retrieved(j, k - 1)
        /\ fs[ConcatFile(temp_dir(j))] = [writer |-> j, data |-> C1_Manifest(j)]

\* ------------------------------------------------------------------ C2
\* C2: downloads run in index order, and once the download at index k has failed
\* (network error or non-success response) no later index is attempted, no
\* manifest is written, the join is never run, and the job has failed with the
\* error that names index k.
C2_FailFast ==
    \A j \in Jobs :
        /\ \A k \in 1..Len(curl_log[j]) : curl_log[j][k].index = k - 1
        /\ \A k \in 1..Len(curl_log[j]) :
              DownloadFailed(j, k - 1) =>
                 /\ Len(curl_log[j]) = k
                 /\ ~ManifestWritten(j)
                 /\ ffmpeg_log[j] = <<>>
                 /\ pc[j] = "done"
                 /\ responses[j] = <<ErrorResponse(CalledProcessError(
                        <<"curl", "-o", ScenePath(temp_dir(j), k - 1), scenes(j)[k].url>>))>>

\* ------------------------------------------------------------------ C3
\* C3: a job that acquired a workspace and has terminated (its response is
\* sent) has left no workspace directory behind.
C3_WorkspaceReleased ==
    \A j \in Jobs : (pc[j] = "done" /\ Acquired(j)) => temp_dir(j) \notin dirs

C5_WorkspaceIsolation ==
    \A j \in Jobs : \A p \in DOMAIN fs :
        (Acquired(j) /\ p.dir = temp_dir(j)) => fs[p].writer = j

\* ------------------------------------------------------------------ C6
\* C6: two distinct submissions never hold the same job_id, hence never the
\* same workspace path.
C6_DistinctJobIds ==
    \A j1, j2 \in Jobs :
        (j1 # j2 /\ Acquired(j1) /\ Acquired(j2)) =>
            /\ job_id[j1] # job_id[j2]
            /\ temp_dir(j1) # temp_dir(j2)

\* ------------------------------------------------------------------ C7
\* C7: a request with scenes = [] is answered with a validation error, and no
\* workspace is created, no download attempted, no manifest written and no
\* join run for it.
C7_EmptyScenesRejected ==
    \A j \in Jobs :
        ("scenes" \in request[j].present /\ scenes(j) = <<>> /\ pc[j] # "validating") =>
            /\ ~Acquired(j)
            /\ curl_log[j] = <<>>
            /\ ~ManifestWritten(j)
            /\ ffmpeg_log[j] = <<>>
            /\ responses[j] = <<ValidationResponse>>

\* ------------------------------------------------------------------ C8
\* the position of a handler in the stage order
Rank(p) ==
    CASE p = "idle" -> 0
      [] p = "validating" -> 1
      [] p = "acquire" -> 2
      [] p = "download" -> 3
      [] p = "write" -> 4
      [] p = "ffmpeg" -> 5
      [] p = "return" -> 6
      [] p = "done" -> 7

\* the job's status of the data model, read off the handler's position
Status(j) ==
    CASE pc[j] = "idle" -> "none"
      [] pc[j] = "validating" -> "validating"
      [] pc[j] \in {"acquire", "download"} -> "fetching"
      [] pc[j] \in {"write", "ffmpeg", "return"} -> "concatenating"
      [] pc[j] = "done" -> IF Succeeded(j) THEN "completed" ELSE "failed"

\* the order of the status values; completed and failed are both final
StatusRank(st) ==
    CASE st = "none" -> 0
      [] st = "validating" -> 1
      [] st = "fetching" -> 2
      [] st = "concatenating" -> 3
      [] st \in {"completed", "failed"} -> 4

\* C8: a job only moves forward through the stages, a stage starts only after the
\* one before it completed successfully (a fetch after the fetches of all lower
\* indices retrieved their segment, the manifest and join after every segment was
\* retrieved, the publication after the join succeeded), and a job that is
\* completed or failed never changes again.
C8_ForwardStages ==
    [][\A j \in Jobs :
         /\ Rank(pc'[j]) >= Rank(pc[j])
         /\ StatusRank(Status(j)') >= StatusRank(Status(j))
         /\ (Status(j) \in {"completed", "failed"}) => (Status(j)' = Status(j))
         /\ (pc[j] = "done") =>
               (pc'[j] = "done" /\ responses'[j] = responses[j] /\ job_id'[j] = job_id[j])
         /\ (Len(curl_log'[j]) > Len(curl_log[j])) =>
               /\ pc[j] = "download" /\ Acquired(j)
               /\ \A i \in 0..(Len(curl_log[j]) - 1) : Retrieved(j, i)
         /\ (pc[j] # "ffmpeg" /\ pc'[j] = "ffmpeg") =>
               \A i \in 0..(Len(scenes(j)) - 1) : Retrieved(j, i)
         /\ (Len(ffmpeg_log'[j]) > Len(ffmpeg_log[j])) => pc[j] = "ffmpeg"
         /\ (Len(responses'[j]) > Len(responses[j]) /\ pc[j] = "return") =>
               JoinSucceeded(j)]_vars

\* ------------------------------------------------------------------ C9
\* C9: once the join process of a job has failed, it was run exactly once, the
\* job is terminated with the error response naming the ffmpeg command, and no
\* success response was or is ever produced for it; no job runs the join twice.
C9_JoinFailureFatal ==
    \A j \in Jobs :
        /\ Len(ffmpeg_log[j]) <= 1
        /\ JoinFailed(j) =>
              /\ pc[j] = "done"
              /\ ~Succeeded(j)
              /\ responses[j] = <<ErrorResponse(CalledProcessError(
                     <<"ffmpeg", "-i", ConcatFile(temp_dir(j)), OutputFile(temp_dir(j))>>))>>

C9_Witness ==
    \E j \in Jobs :
        /\ JoinFailed(j)
        /\ Len(scenes(j)) = 2
        /\ \A i \in 0..1 : Retrieved(j, i)
        /\ pc[j] = "done"
        /\ Len(responses[j]) = 1
        /\ responses[j][1].status = 500

\* ----------------------------------------------------------------- C10
\* C10: a handled request that has terminated got exactly one response; it is the
\* success response (job_id of this job, scene_count = number of scenes,
\* output_url = the job's output file) exactly when every segment was retrieved
\* and the join succeeded, and the 500 response with a detail otherwise.
C10_ResponseContract ==
    \A j \in Jobs :
        (Handled(j) /\ pc[j] = "done") =>
            /\ Len(responses[j]) = 1
            /\ IF (\A i \in 0..(Len(scenes(j)) - 1) : Retrieved(j, i)) /\ JoinSucceeded(j)
               THEN responses[j][1] =
                       [status |-> 200, success |-> TRUE,
                        output_url |-> OutputFile(temp_dir(j)),
                        job_id |-> job_id[j],
                        scene_count |-> Len(scenes(j))]
               ELSE /\ responses[j][1].status = 500
                    /\ ~responses[j][1].success
                    /\ responses[j][1].detail # <<>>

\* ----------------------------------------------------------------- C11
\* C11: a job whose acquire finds the directory of its job_id already there
\* fails with an error response and never fetches into it, so of the jobs that
\* acquire one workspace path at most one proceeds.
C11_AtomicAcquire ==
    [][\A j \in Jobs :
         (pc[j] = "acquire" /\ pc'[j] # "acquire" /\ TempDir(job_id'[j]) \in dirs) =>
            /\ pc'[j] = "done"
            /\ Len(responses'[j]) = 1
            /\ ~responses'[j][1].success
            /\ curl_log'[j] = <<>>]_vars

\* ----------------------------------------------------------------- C12
\* C12: a request whose body does not validate (a missing or ill-typed scenes,
\* url, duration, output_path or campaign_id) is answered with the validation
\* error and nothing else happens for it: no job_id, no workspace, no download,
\* no file written, no join.
C12_ValidationFirst ==
    \A j \in Jobs :
        (pc[j] # "idle" /\ request[j] \in MalformedBodies) =>
            /\ pc[j] \in {"validating", "done"}
            /\ ~Acquired(j)
            /\ curl_log[j] = <<>>
            /\ ffmpeg_log[j] = <<>>
            /\ \A p \in DOMAIN fs : fs[p].writer # j
            /\ responses[j] = IF pc[j] = "done" THEN <<ValidationResponse>> ELSE <<>>

C12_Witness ==
    \E j, k \in Jobs :
        /\ request[j] \in MalformedBodies
        /\ "scenes" \in request[j].present
        /\ pc[j] = "done"
        /\ responses[j] = <<ValidationResponse>>
        /\ k # j
        /\ Succeeded(k)

\* ----------------------------------------------------------------- C13
\* C13: an external call that does not return on its own is ended by its
\* timeout: a job whose download or join stalled is terminated with an error
\* response instead of staying inside the call.
C13_BoundedCalls ==
    \A j \in Jobs :
        (CurlHung(j) \/ FfmpegHung(j)) =>
            /\ pc[j] = "done"
            /\ Len(responses[j]) = 1
            /\ responses[j][1].status = 500

(***************************************************************************)
(* brand-infinity-workflows/add_mock_mode.py: patch_production_dispatcher  *)
(* run any number of times on Production_Dispatcher.json.                  *)
(***************************************************************************)
MaxNodes == 3
MaxCodeLen == 2
MaxMockRuns == 2

\* text is a sequence of pieces; t in s (Python's substring test)
Contains(s, t) ==
    \E i \in 1..(Len(s) + 1 - Len(t)) : SubSeq(s, i, i + Len(t) - 1) = t

\* the literal 'mock_mode' the script looks for
MockModeLiteral == <<"mock_", "mode">>

\* MOCK_MODE_CODE (lines 14-92): it sets mock_mode: true / mock_mode: false
MOCK_MODE_CODE == <<"const ticket", "mock_", "mode", ": true", "mock_", "mode", ": false">>

\* mock_check (lines 114-134): it tests routeData.mock_mode
mock_check == <<"const routeData", "routeData.", "mock_", "mode">>

RouteToProvider == "Route to Provider"
ParseResponse == "Parse Response"

\* the jsCode a node of the file can hold before the first run
Codes == UNION {[1..n -> {"mock_", "mode"}] : n \in 0..MaxCodeLen}

Nodes == [name : {RouteToProvider, ParseResponse, "Other"}, jsCode : Codes]

Workflows == UNION {[1..n -> Nodes] : n \in 0..MaxNodes}

\* the file as text: its layout and the document it encodes
WorkflowFiles == [layout : {"exported", "indent2"}, nodes : Workflows]

\* json.load(f): the document, whatever the layout
JsonLoad(file) == file.nodes

\* json.dump(workflow, f, indent=2)
JsonDump(nodes) == [layout |-> "indent2", nodes |-> nodes]

\* the first node of that name (the loops break at the first match), 0 if none
FirstNamed(nodes, name) ==
    IF \E k \in 1..Len(nodes) : nodes[k].name = name
    THEN CHOOSE k \in 1..Len(nodes) :
            /\ nodes[k].name = name
            /\ \A m \in 1..(k - 1) : nodes[m].name # name
    ELSE 0

\* lines 103-107
PatchRouteToProvider(nodes) ==
    LET k == FirstNamed(nodes, RouteToProvider)
    IN IF k = 0 THEN nodes ELSE [nodes EXCEPT ![k].jsCode = MOCK_MODE_CODE]

PatchParseResponse_Unguarded(nodes) ==
    LET k == FirstNamed(nodes, ParseResponse)
    IN IF k = 0 THEN nodes ELSE [nodes EXCEPT ![k].jsCode = mock_check \o @]

\* lines 110-137
PatchParseResponse(nodes) ==
    LET k == FirstNamed(nodes, ParseResponse)
    IN IF k # 0 /\ ~Contains(nodes[k].jsCode, MockModeLiteral)
       THEN [nodes EXCEPT ![k].jsCode = mock_check \o @]
       ELSE nodes

\* lines 95-142
patch_production_dispatcher(file) ==
    JsonDump(PatchParseResponse(PatchRouteToProvider(JsonLoad(file))))

InitMock ==
    /\ ServiceInit
    /\ IdsIdle
    /\ workflow_file \in WorkflowFiles
    /\ mock_runs = 0

\* python3 add_mock_mode.py
RunAddMockMode ==
    /\ mock_runs < MaxMockRuns
    /\ workflow_file' = patch_production_dispatcher(workflow_file)
    /\ mock_runs' = mock_runs + 1
    /\ UNCHANGED <<service_vars, ids_vars>>

NextMock == RunAddMockMode

SpecMock == InitMock /\ [][NextMock]_vars

\* ----------------------------------------------------------------- C14
\* C14: a run after the first leaves the workflow as it is; every run leaves the
\* first 'Route to Provider' node with MOCK_MODE_CODE, prepends mock_check to the
\* first 'Parse Response' node exactly when its code does not contain
\* 'mock_mode' (so never a second time), and changes no other node.
C14_PatchIdempotent ==
    [][(mock_runs' = mock_runs + 1) =>
         LET before == workflow_file.nodes
             after == workflow_file'.nodes
             r == FirstNamed(before, RouteToProvider)
             p == FirstNamed(before, ParseResponse)
         IN /\ Len(after) = Len(before)
            /\ \A k \in 1..Len(before) :
                  /\ after[k].name = before[k].name
                  /\ (k = r) => after[k].jsCode = MOCK_MODE_CODE
                  /\ (k = p) => after[k].jsCode =
                        IF Contains(before[k].jsCode, MockModeLiteral)
                        THEN before[k].jsCode
                        ELSE mock_check \o before[k].jsCode
                  /\ (k \notin {r, p}) => after[k] = before[k]
            /\ (mock_runs >= 1) => workflow_file'.nodes = workflow_file.nodes
            /\ (mock_runs >= 1 /\ r # 0) => before[r].jsCode = MOCK_MODE_CODE
            /\ (mock_runs >= 1 /\ p # 0) =>
                  ~Contains(SubSeq(before[p].jsCode, 2, Len(before[p].jsCode)),
                            mock_check)]_vars

C14_Witness ==
    /\ mock_runs = 2
    /\ Len(workflow_file.nodes) = 3
    /\ \E r, p, o \in 1..3 :
          /\ workflow_file.nodes[r] = [name |-> RouteToProvider, jsCode |-> MOCK_MODE_CODE]
          /\ workflow_file.nodes[p] = [name |-> ParseResponse, jsCode |-> mock_check \o <<"mode", "mock_">>]
          /\ workflow_file.nodes[o] = [name |-> "Other", jsCode |-> <<"mode">>]

(***************************************************************************)
(* brand-infinity-workflows/hardcode_workflow_ids.py: patch_workflow_file  *)
(* called any number of times on one file with one replacement map.        *)
(***************************************************************************)
NumPlaceholders == 2
MaxContentLen == 4
MaxIdLen == 1
MaxPatchCalls == 3

\* Text is a sequence of pieces, each standing for a fixed substring:
\* OpenPiece for "={{ $env.", NamePiece(k) for "<k-th variable name> }}",
\* TextPiece for any other text
OpenPiece == 0
NamePiece(k) == k
TextPiece == NumPlaceholders + 1
Pieces == 0..(NumPlaceholders + 1)

\* WORKFLOW_TO_ENV_VAR, in its order: the workflows 1..NumPlaceholders
Workflow_To_Env_Var == 1..NumPlaceholders

\* expression = f"={{{{ $env.{env_var_name} }}}}"
Expression(k) == <<OpenPiece, NamePiece(k)>>

\* the texts of at most n pieces
Texts(n) == UNION {[1..m -> Pieces] : m \in 0..n}

\* the ids load_workflow_ids can read: the text after '=', stripped
WorkflowIds == Texts(MaxIdLen)

\* create_replacement_map: an entry for every workflow that has an id, kept
\* in the order of WORKFLOW_TO_ENV_VAR
ReplacementMaps ==
    UNION {[ks -> WorkflowIds] : ks \in SUBSET Workflow_To_Env_Var}

\* s.count(t): the non-overlapping occurrences, left to right; len(s) + 1 for t = ''
RECURSIVE Count(_, _)
Count(s, t) ==
    IF t = <<>> THEN Len(s) + 1
    ELSE IF Len(s) < Len(t) THEN 0
    ELSE IF SubSeq(s, 1, Len(t)) = t
         THEN 1 + Count(SubSeq(s, Len(t) + 1, Len(s)), t)
         ELSE Count(Tail(s), t)

\* s.replace(old, new) for a non-empty old: every non-overlapping occurrence
RECURSIVE Replace(_, _, _)
Replace(s, old, new) ==
    IF Len(s) < Len(old) THEN s
    ELSE IF SubSeq(s, 1, Len(old)) = old
         THEN new \o Replace(SubSeq(s, Len(old) + 1, Len(s)), old, new)
         ELSE <<Head(s)>> \o Replace(Tail(s), old, new)

\* line 81: changes_made += content.count(actual_id) - original_content.count(actual_id)
ChangesAdded(cur, original_content, actual_id) ==
    Count(cur, actual_id) - Count(original_content, actual_id)

\* lines 78-81, from the k-th entry of WORKFLOW_TO_ENV_VAR on:
\* the content and changes_made when the loop ends
RECURSIVE PatchLoop(_, _, _, _, _)
PatchLoop(k, cur, changes_made, original_content, repl) ==
    IF k > NumPlaceholders THEN [content |-> cur, changes_made |-> changes_made]
    ELSE IF k \in DOMAIN repl /\ Contains(cur, Expression(k))
         THEN LET replaced == Replace(cur, Expression(k), repl[k])
              IN PatchLoop(k + 1, replaced,
                           changes_made + ChangesAdded(replaced, original_content, repl[k]),
                           original_content, repl)
         ELSE PatchLoop(k + 1, cur, changes_made, original_content, repl)

\* lines 69-89: the file afterwards, whether it was written, the value returned
patch_workflow_file(file, repl) ==
    LET end == PatchLoop(1, file, 0, file, repl)
    IN IF end.content # file
       THEN [content |-> end.content, wrote |-> TRUE, value |-> end.changes_made]
       ELSE [content |-> file, wrote |-> FALSE, value |-> 0]

InitIds ==
    /\ ServiceInit
    /\ MockIdle
    /\ content \in Texts(MaxContentLen)
    /\ replacements \in ReplacementMaps
    /\ returned = <<>>

\* main, lines 122-131 / 140-149: one call on the file
CallPatchWorkflowFile ==
    /\ Len(returned) < MaxPatchCalls
    /\ LET r == patch_workflow_file(content, replacements)
       IN /\ content' = r.content
          /\ returned' = Append(returned, [value |-> r.value, wrote |-> r.wrote,
                                           before |-> content])
    /\ UNCHANGED <<replacements, service_vars, mock_vars>>

NextIds == CallPatchWorkflowFile

SpecIds == InitIds /\ [][NextIds]_vars

\* the file as the i-th call left it
ContentAfter(i) == IF i < Len(returned) THEN returned[i + 1].before ELSE content

\* an expression of the map occurs in the text
HasMappedPlaceholder(text) ==
    \E k \in DOMAIN replacements : Contains(text, Expression(k))

\* no id of the map contains a placeholder expression
IdsFreeOfPlaceholders ==
    \A k \in DOMAIN replacements :
        \A e \in Workflow_To_Env_Var : ~Contains(replacements[k], Expression(e))

\* line 80: the occurrences str.replace replaced, summed over the loop
RECURSIVE ReplacedOccurrences(_, _, _)
ReplacedOccurrences(k, cur, repl) ==
    IF k > NumPlaceholders THEN 0
    ELSE IF k \in DOMAIN repl /\ Contains(cur, Expression(k))
         THEN Count(cur, Expression(k))
              + ReplacedOccurrences(k + 1, Replace(cur, Expression(k), repl[k]), repl)
         ELSE ReplacedOccurrences(k + 1, cur, repl)

\* C15: patch_workflow_file is idempotent and writes only on change: a call on
\* a file without a placeholder of the map returns 0 and writes nothing, and
\* once a call has patched the file, with a map whose ids contain no
\* placeholder expression, no mapped placeholder is left and the next call
\* returns 0 and leaves the content unchanged.
C15_Idempotent ==
    /\ \A i \in 1..Len(returned) :
           ~HasMappedPlaceholder(returned[i].before) =>
               /\ returned[i].value = 0
               /\ ~returned[i].wrote
               /\ ContentAfter(i) = returned[i].before
    /\ \A i \in 1..Len(returned) :
           (returned[i].wrote /\ IdsFreeOfPlaceholders) =>
               /\ ~HasMappedPlaceholder(ContentAfter(i))
               /\ i < Len(returned) =>
                      /\ returned[i + 1].value = 0
                      /\ ~returned[i + 1].wrote
                      /\ ContentAfter(i + 1) = ContentAfter(i)

\* C16: the number patch_workflow_file returns equals the number of
\* placeholder-expression occurrences it replaced in the file.
C16_ExactCount ==
    \A i \in 1..Len(returned) :
        returned[i].value = ReplacedOccurrences(1, returned[i].before, replacements)

====
